---- MODULE Spec2Model ----
(***************************************************************************)
(* Recall: chat with persistent per-session memory (src/Recall/main.py).   *)
(*                                                                         *)
(* A Python str is modelled as a sequence of chunks (short TLA+ strings),  *)
(* so that concatenation is \o and startswith is a prefix test.  A session *)
(* file is modelled by its text, a sequence of JSON tokens, so that a      *)
(* truncated write is a proper prefix of the dumped text and json.load is  *)
(* a parser that can fail.                                                 *)
(*                                                                         *)
(* Spec      calls of chat_with_memory and load_memory, any configuration  *)
(* SpecFixed messages sent with settings 1 <= max_history <= threshold     *)
(* SpecGui   the window: send, new chat, change, delete, rename, settings  *)
(* SpecConc  two turns of one session at the same time                     *)
(***************************************************************************)
EXTENDS Integers, Sequences, FiniteSets, TLC

VARIABLES files, saved, last, gui, procs

vars == <<files, saved, last, gui, procs>>

\* ------------------------------------------------------------------ bounds
MaxLen == 4
MaxHist == 2
MaxThresh == 1

\* defaults of chat_with_memory's signature
DefaultMaxHistory == 5
DefaultSummaryThreshold == 20

Sessions == {"default", "t1"}

\* MEMORY_FILE = f"memory_{session}.json"
\* faulty variant: one file for every session
memory_file_shared(session) == <<"memory_", "default", ".json">>

memory_file(session) == <<"memory_", session, ".json">>

FileNames == {<<"memory_", s, ".json">> : s \in Sessions}

Max(a, b) == IF a >= b THEN a ELSE b
Min(a, b) == IF a <= b THEN a ELSE b

\* ----------------------------------------------------------------- strings
EmptyStr == <<>>
Hello == <<"hello">>
\* a string with a backslash, a double quote and a non-ASCII character
Fancy == <<"\\", "\"", "U+00E9">>
\* a string holding a lone surrogate: a Python str that UTF-8 cannot encode
Surrogate == <<"U+D800">>
HiThere == <<"hi there">>

StartsWith(s, p) == Len(s) >= Len(p) /\ SubSeq(s, 1, Len(p)) = p

ErrorPrefixes == { <<"HTTP Error:">>, <<"Request Error:">>, <<"Unexpected Error:">> }

Capitalize(role) ==
    CASE role = "user" -> "User"
      [] role = "assistant" -> "Assistant"
      [] role = "system" -> "System"
      [] OTHER -> role

\* ------------------------------------------------------------ Python values
\* an item of a loaded list: a role/content dict, or a value that is not one
\* (the JSON number 1)
Msg(role, content) == [kind |-> "dict", role |-> role, content |-> content]
IntItem == [kind |-> "int", role |-> "", content |-> <<>>]

\* m['role'] / m['content'] raise on an item that is not such a dict
Subscriptable(m) == m.kind = "dict"

\* Python slices memory[-k:] and memory[:-k]
SliceLast(s, k) ==
    IF k = 0 THEN s ELSE SubSeq(s, Max(Len(s) - k, 0) + 1, Len(s))
SliceButLast(s, k) ==
    IF k = 0 THEN <<>> ELSE SubSeq(s, 1, Max(Len(s) - k, 0))

\* -------------------------------------------------------------------- JSON
Tok(t, role, content) == [t |-> t, role |-> role, content |-> content]
LB == Tok("[", "", <<>>)
RB == Tok("]", "", <<>>)
COMMA == Tok(",", "", <<>>)
NUM == Tok("1", "", <<>>)

RECURSIVE JsonEscape(_)
\* json.dump(..., ensure_ascii=False): quote and backslash are escaped,
\* non-ASCII characters are written as they are
JsonEscape(s) ==
    IF s = <<>> THEN <<>>
    ELSE (IF Head(s) \in {"\"", "\\"} THEN <<"\\", Head(s)>> ELSE <<Head(s)>>)
         \o JsonEscape(Tail(s))

RECURSIVE JsonUnescape(_)
JsonUnescape(s) ==
    IF s = <<>> THEN <<>>
    ELSE IF Head(s) = "\\" /\ Len(s) >= 2
         THEN <<s[2]>> \o JsonUnescape(SubSeq(s, 3, Len(s)))
         ELSE <<Head(s)>> \o JsonUnescape(Tail(s))

\* faulty variant: the content is written without escaping
ItemTok_raw(m) ==
    IF m.kind = "dict" THEN Tok("{}", m.role, m.content) ELSE NUM

ItemTok(m) ==
    IF m.kind = "dict" THEN Tok("{}", m.role, JsonEscape(m.content)) ELSE NUM

TokItem(tok) ==
    IF tok.t = "{}" THEN Msg(tok.role, JsonUnescape(tok.content)) ELSE IntItem

RECURSIVE JoinItems(_)
JoinItems(memory) ==
    IF memory = <<>> THEN <<>>
    ELSE IF Len(memory) = 1 THEN <<ItemTok(memory[1])>>
    ELSE <<ItemTok(memory[1]), COMMA>> \o JoinItems(Tail(memory))

\* the text json.dump(memory, f, ensure_ascii=False, indent=2) produces
json_dump(memory) == <<LB>> \o JoinItems(memory) \o <<RB>>

RECURSIVE ParseItems(_, _, _)
ParseItems(text, i, acc) ==
    IF i + 1 > Len(text) \/ text[i].t \notin {"{}", "1"}
    THEN [ok |-> FALSE, isList |-> FALSE, items |-> <<>>]
    ELSE IF text[i + 1] = RB
         THEN [ok |-> i + 1 = Len(text), isList |-> TRUE,
               items |-> IF i + 1 = Len(text) THEN Append(acc, TokItem(text[i])) ELSE <<>>]
         ELSE IF text[i + 1] = COMMA
              THEN ParseItems(text, i + 2, Append(acc, TokItem(text[i])))
              ELSE [ok |-> FALSE, isList |-> FALSE, items |-> <<>>]

\* json.load(f): ok = FALSE stands for json.JSONDecodeError
json_load(text) ==
    IF text = <<NUM>> THEN [ok |-> TRUE, isList |-> FALSE, items |-> <<>>]
    ELSE IF text = <<LB, RB>> THEN [ok |-> TRUE, isList |-> TRUE, items |-> <<>>]
    ELSE IF Len(text) >= 1 /\ text[1] = LB THEN ParseItems(text, 2, <<>>)
    ELSE [ok |-> FALSE, isList |-> FALSE, items |-> <<>>]

\* ---------------------------------------------------------------- the files
File(text) == [exists |-> TRUE, text |-> text]
Absent == [exists |-> FALSE, text |-> <<>>]

\* the body of load_memory's try block: the value it returns or the
\* exception it raises; io = "error" is an OSError raised by open or read
load_body(file, io) ==
    IF io = "error"
    THEN [exc |-> "OSError", value |-> <<>>]
    ELSE LET memory == json_load(file.text)
         IN IF ~memory.ok THEN [exc |-> "JSONDecodeError", value |-> <<>>]
            ELSE IF ~memory.isList THEN [exc |-> "none", value |-> <<>>]
            ELSE [exc |-> "none", value |-> memory.items]

\* faulty variant: only the JSON handler
LoadHandled_json_only == {"JSONDecodeError"}

\* except json.JSONDecodeError / except Exception
LoadHandled == {"JSONDecodeError", "OSError"}

load_memory(file, io) ==
    IF file.exists
    THEN LET r == load_body(file, io)
         IN IF r.exc = "none" THEN [raised |-> FALSE, value |-> r.value]
            ELSE IF r.exc \in LoadHandled THEN [raised |-> FALSE, value |-> <<>>]
            ELSE [raised |-> TRUE, value |-> <<>>]
    ELSE [raised |-> FALSE, value |-> <<>>]

\* ------------------------------------------------------------ generate_text
\* what requests.post / raise_for_status / r.json() do for one call
OkOut(response) == [kind |-> "ok", response |-> response]
HttpOut == [kind |-> "HTTPError", response |-> <<>>]
RequestOut == [kind |-> "RequestException", response |-> <<>>]
OtherOut == [kind |-> "Exception", response |-> <<>>]
NoCall == [kind |-> "none", response |-> <<>>]

GenOutcomes == {OkOut(HiThere), OkOut(EmptyStr), HttpOut, RequestOut, OtherOut}

generate_text(out) ==
    CASE out.kind = "ok" -> out.response
      [] out.kind = "HTTPError" -> <<"HTTP Error:", " 500, oops">>
      [] out.kind = "RequestException" -> <<"Request Error:", " refused">>
      [] OTHER -> <<"Unexpected Error:", " bad body">>

\* --------------------------------------------------------- chat_with_memory
\* line 28
append_user(memory, user_input) == Append(memory, Msg("user", user_input))

\* faulty variant: >= instead of >
too_long_ge(memory, summary_threshold) == Len(memory) >= summary_threshold

\* line 31
too_long(memory, summary_threshold) == Len(memory) > summary_threshold

\* faulty variant: every message is summarized
old_messages_all(memory, max_history) == memory

\* line 32
old_messages(memory, max_history) == SliceButLast(memory, max_history)

\* faulty variant: the recent partition is not cut out
summarized_uncut(memory, max_history, summary) ==
    <<Msg("system", summary)>> \o memory

\* faulty variant: one message more than max_history is kept
summarized_one_more(memory, max_history, summary) ==
    <<Msg("system", summary)>> \o SliceLast(memory, max_history + 1)

\* faulty variant: the summary is put after the recent messages
summarized_appended(memory, max_history, summary) ==
    Append(SliceLast(memory, max_history), Msg("system", summary))

\* line 36
summarized(memory, max_history, summary) ==
    <<Msg("system", summary)>> \o SliceLast(memory, max_history)

\* faulty variant: the agent prompt is prepended before the slice is taken
context_messages_cut_after(memory, max_history, agent_prompt) ==
    IF agent_prompt # EmptyStr
    THEN SliceLast(<<Msg("system", agent_prompt)>> \o memory, max_history)
    ELSE SliceLast(memory, max_history)

\* faulty variant: the context is one message longer than max_history
context_messages_one_more(memory, max_history, agent_prompt) ==
    IF agent_prompt # EmptyStr
    THEN <<Msg("system", agent_prompt)>> \o SliceLast(memory, max_history + 1)
    ELSE SliceLast(memory, max_history + 1)

\* lines 39-41; in Python the empty string is falsy
context_messages(memory, max_history, agent_prompt) ==
    IF agent_prompt # EmptyStr
    THEN <<Msg("system", agent_prompt)>> \o SliceLast(memory, max_history)
    ELSE SliceLast(memory, max_history)

RECURSIVE Render(_)
\* "\n".join([f"{m['role'].capitalize()}: {m['content']}" for m in msgs])
Render(msgs) ==
    IF msgs = <<>> THEN <<>>
    ELSE <<Capitalize(msgs[1].role), ": ">> \o msgs[1].content
         \o (IF Len(msgs) = 1 THEN <<>> ELSE <<"\n">> \o Render(Tail(msgs)))

\* the comprehension raises TypeError on the first item that is no dict
Renderable(msgs) == \A i \in 1..Len(msgs) : Subscriptable(msgs[i])

\* faulty variant: the empty reply is not tested
failed_reply_prefix_only(assistant_reply) ==
    \E p \in ErrorPrefixes : StartsWith(assistant_reply, p)

\* line 49
failed_reply(assistant_reply) ==
    assistant_reply = EmptyStr \/ \E p \in ErrorPrefixes : StartsWith(assistant_reply, p)

\* faulty variant: the reply is appended to the context that was sent
append_reply_to_context(locals) ==
    Append(locals.context_messages, Msg("assistant", locals.assistant_reply))

\* line 53: the locals record holds memory, context_messages, assistant_reply
append_reply(locals) ==
    Append(locals.memory, Msg("assistant", locals.assistant_reply))

\* the text is encoded to UTF-8 as it is written
Encodable(tok) == \A i \in 1..Len(tok.content) : tok.content[i] # "U+D800"

\* number of leading tokens of text that can be encoded
RECURSIVE EncodablePrefix(_)
EncodablePrefix(text) ==
    IF text = <<>> \/ ~Encodable(Head(text)) THEN 0
    ELSE 1 + EncodablePrefix(Tail(text))

\* the outcomes of lines 54-58 for a given memory: the open fails, the write
\* fails after k tokens reached the file (none of them, or all that could be
\* written before the failure), or everything is written
SaveOutcomes(memory) ==
    LET text == json_dump(memory)
    IN {[kind |-> "open_fail", k |-> 0]}
       \cup {[kind |-> "write_fail", k |-> k] : k \in {0, Min(EncodablePrefix(text), Len(text) - 1)}}
       \cup (IF EncodablePrefix(text) = Len(text) THEN {[kind |-> "ok", k |-> 0]} ELSE {})
NoSave == [kind |-> "none", k |-> 0]

\* except Exception around open and json.dump
SaveHandled == {"OSError", "UnicodeEncodeError"}

\* lines 54-58: open(MEMORY_FILE, "w") truncates, json.dump writes
save_memory(file, memory, out) ==
    CASE out.kind = "open_fail" -> [file |-> file, exc |-> "OSError"]
      [] out.kind = "write_fail" ->
            [file |-> File(SubSeq(json_dump(memory), 1, out.k)),
             exc |-> IF out.k = EncodablePrefix(json_dump(memory))
                        /\ out.k < Len(json_dump(memory))
                     THEN "UnicodeEncodeError" ELSE "OSError"]
      [] OTHER -> [file |-> File(json_dump(memory)), exc |-> "none"]

\* chat_with_memory is modelled in four steps, each taking the locals the
\* previous one left (st) and what the file system or the endpoint does
\* during the step.  Once raised is TRUE the later steps do nothing.

\* lines 25-28: load the memory, append the user message
load_step(file, io, user_input) ==
    [raised |-> load_memory(file, io).raised,
     loaded |-> load_memory(file, io).value,
     memory |-> append_user(load_memory(file, io).value, user_input)]

\* lines 31-36: summarize the older messages if the memory is too long
summarize_step(st, max_history, summary_threshold, sum_out) ==
    LET fired == ~st.raised /\ too_long(st.memory, summary_threshold)
        called == fired /\ Renderable(old_messages(st.memory, max_history))
    IN [raised |-> st.raised \/ (fired /\ ~called),
        loaded |-> st.loaded,
        fired |-> fired,
        summary_called |-> called,
        summary_prompt |->
            IF called
            THEN <<"Summarize the following conversation in a few sentences to preserve context:\n">>
                 \o Render(old_messages(st.memory, max_history)) \o <<"\nSummary:">>
            ELSE <<>>,
        summary |-> IF called THEN generate_text(sum_out) ELSE <<>>,
        memory |-> IF called
                   THEN summarized(st.memory, max_history, generate_text(sum_out))
                   ELSE st.memory]

\* lines 39-47: build the prompt from the memory, generate the reply
generate_step(st, max_history, agent_prompt, gen_out) ==
    LET called == ~st.raised
                  /\ Renderable(context_messages(st.memory, max_history, agent_prompt))
    IN [raised |-> ~called,
        loaded |-> st.loaded,
        fired |-> st.fired,
        summary_called |-> st.summary_called,
        summary_prompt |-> st.summary_prompt,
        summary |-> st.summary,
        memory3 |-> st.memory,
        final_called |-> called,
        context_messages |->
            IF called THEN context_messages(st.memory, max_history, agent_prompt) ELSE <<>>,
        context |->
            IF called
            THEN Render(context_messages(st.memory, max_history, agent_prompt))
                 \o <<"\nAssistant:">>
            ELSE <<>>,
        assistant_reply |-> IF called THEN generate_text(gen_out) ELSE <<>>]

\* lines 49-60: return a failed reply at once, else append the reply, save
\* the memory and return the reply
finish_step(st, file, save_out) ==
    LET saving == ~st.raised /\ ~failed_reply(st.assistant_reply)
        memory == IF saving
                  THEN append_reply([memory |-> st.memory3,
                                     context_messages |-> st.context_messages,
                                     assistant_reply |-> st.assistant_reply])
                  ELSE st.memory3
    IN [raised |-> st.raised
                   \/ (saving /\ save_out.kind # "none"
                       /\ save_memory(file, memory, save_out).exc \notin SaveHandled \cup {"none"}),
        ret |-> st.assistant_reply,
        file |-> IF saving /\ save_out.kind # "none"
                 THEN save_memory(file, memory, save_out).file ELSE file,
        loaded |-> st.loaded,
        fired |-> st.fired,
        summary_called |-> st.summary_called,
        summary_prompt |-> st.summary_prompt,
        summary |-> st.summary,
        memory3 |-> st.memory3,
        final_called |-> st.final_called,
        context_messages |-> st.context_messages,
        context |-> st.context,
        assistant_reply |-> st.assistant_reply,
        save_called |-> saving,
        memory |-> memory]

\* chat_with_memory(user_input, session, model, max_history,
\* summary_threshold, agent_prompt) on the session file `file`.  The result
\* holds the returned value, the file afterwards and the locals of the call.
chat_with_memory(file, io, user_input, max_history, summary_threshold, agent_prompt, sum_out, gen_out, save_out) ==
    finish_step(
        generate_step(
            summarize_step(load_step(file, io, user_input),
                           max_history, summary_threshold, sum_out),
            max_history, agent_prompt, gen_out),
        file, save_out)

\* ------------------------------------------------------------------ inputs
UserInputs == {Hello, Fancy, Surrogate}
AgentPrompts == {EmptyStr, <<"You are a pirate.">>}
Configs == ((1..MaxHist) \X (0..MaxThresh))
           \cup {<<DefaultMaxHistory, DefaultSummaryThreshold>>}

\* a record of DefaultSummaryThreshold + 1 messages, user and assistant in turn
LongRecord ==
    [i \in 1..(DefaultSummaryThreshold + 1) |->
        IF i % 2 = 1 THEN Msg("user", Hello) ELSE Msg("assistant", HiThere)]

InitFiles ==
    { Absent,
      File(<<RB>>),                        \* not JSON
      File(<<NUM>>),                       \* JSON, not a list
      File(<<LB, NUM, RB>>),               \* a list whose item is no message
      File(json_dump(<<>>)),
      File(json_dump(<<Msg("user", Hello), Msg("assistant", HiThere)>>)),
      File(json_dump(LongRecord)) }

NoOp == [op |-> "none"]

\* ChatGUI.__init__ without a settings.json: the defaults of gui.py:26-35
DefaultSettings ==
    [max_history |-> DefaultMaxHistory, summary_threshold |-> DefaultSummaryThreshold,
     enable_summarization |-> TRUE, agent_prompt |-> EmptyStr]

\* Sidebar.load_sessions: the session names of the memory files in the
\* directory, "default" when there is none
load_sessions(dir) ==
    IF {f \in DOMAIN dir : dir[f].exists /\ f[1] = "memory_" /\ f[3] = ".json"} = {}
    THEN {"default"}
    ELSE {f[2] : f \in {g \in DOMAIN dir : dir[g].exists /\ g[1] = "memory_" /\ g[3] = ".json"}}

\* the window after ChatGUI.__init__
GuiStart(dir, settings) ==
    [session_list |-> load_sessions(dir), current_session |-> "default",
     settings |-> settings]

NoProcs == [p \in {} |-> 0]

Init ==
    /\ \E f \in InitFiles :
          files = [n \in FileNames |-> IF n = memory_file("default") THEN f ELSE Absent]
    /\ saved = [s \in Sessions |-> [valid |-> FALSE, memory |-> <<>>]]
    /\ last = NoOp
    /\ gui = GuiStart(files, DefaultSettings)
    /\ procs = NoProcs

IoOutcomes(file) == IF file.exists THEN {"ok", "error"} ELSE {"ok"}

\* one call of chat_with_memory, as ChatArea.send_message makes it
Turn(s, io, user_input, cfg, agent_prompt, sum_out, gen_out, save_out) ==
    \E r \in {chat_with_memory(files[memory_file(s)], io, user_input, cfg[1], cfg[2],
                              agent_prompt, sum_out, gen_out, save_out)} :
       /\ r.fired \/ ~r.save_called \/ Len(r.loaded) + 2 <= MaxLen
       /\ files' = [files EXCEPT ![memory_file(s)] = r.file]
       /\ saved' = [saved EXCEPT ![s] =
                      IF save_out.kind = "ok" THEN [valid |-> TRUE, memory |-> r.memory]
                      ELSE IF r.file # files[memory_file(s)] THEN [valid |-> FALSE, memory |-> <<>>]
                      ELSE @]
       /\ last' = [op |-> "turn", session |-> s, before |-> files[memory_file(s)],
                   dir |-> files, io |-> io,
                   user_input |-> user_input, max_history |-> cfg[1],
                   summary_threshold |-> cfg[2], agent_prompt |-> agent_prompt,
                   sum_out |-> sum_out, gen_out |-> gen_out, save_out |-> save_out,
                   r |-> r]

SumDomain(file, io, user_input, cfg) ==
    IF summarize_step(load_step(file, io, user_input), cfg[1], cfg[2], NoCall).summary_called
    THEN GenOutcomes ELSE {NoCall}

GenDomain(file, io, user_input, cfg, agent_prompt, sum_out) ==
    IF generate_step(summarize_step(load_step(file, io, user_input), cfg[1], cfg[2], sum_out),
                     cfg[1], agent_prompt, NoCall).final_called
    THEN GenOutcomes ELSE {NoCall}

SaveDomain(file, io, user_input, cfg, agent_prompt, sum_out, gen_out) ==
    IF chat_with_memory(file, io, user_input, cfg[1], cfg[2], agent_prompt,
                        sum_out, gen_out, NoSave).save_called
    THEN SaveOutcomes(chat_with_memory(file, io, user_input, cfg[1], cfg[2], agent_prompt,
                                       sum_out, gen_out, NoSave).memory)
    ELSE {NoSave}

DoTurn(S) ==
    /\ last.op = "none"
    /\ UNCHANGED <<gui, procs>>
    /\ \E s \in S, user_input \in UserInputs, cfg \in Configs, agent_prompt \in AgentPrompts :
      \E f \in {files[memory_file(s)]} :
       \E io \in IoOutcomes(f) :
        \E sum_out \in SumDomain(f, io, user_input, cfg) :
          \E gen_out \in GenDomain(f, io, user_input, cfg, agent_prompt, sum_out) :
            \E save_out \in SaveDomain(f, io, user_input, cfg, agent_prompt, sum_out, gen_out) :
              Turn(s, io, user_input, cfg, agent_prompt, sum_out, gen_out, save_out)

\* one call of load_memory, as ChatArea.load_session_chat makes it
Load(s, io) ==
    /\ last' = [op |-> "load", session |-> s, before |-> files[memory_file(s)],
                dir |-> files, io |-> io,
                r |-> load_memory(files[memory_file(s)], io)]
    /\ UNCHANGED <<files, saved>>

DoLoad(S) ==
    /\ last.op = "none"
    /\ UNCHANGED <<gui, procs>>
    /\ \E s \in S : \E io \in IoOutcomes(files[memory_file(s)]) : Load(s, io)

\* the caller has shown the result (or the event loop has reported the
\* exception) and the application waits for the next event
Shown ==
    /\ last.op # "none"
    /\ last' = NoOp
    /\ UNCHANGED <<files, saved, gui, procs>>

\* calls with the default session name
Next == DoTurn({"default"}) \/ DoLoad({"default"}) \/ Shown

Spec == Init /\ [][Next]_vars

\* ---------------------------------------------------------------- the GUI
RECURSIVE LStrip(_)
LStrip(str) == IF str # <<>> /\ Head(str) = " " THEN LStrip(Tail(str)) ELSE str

RECURSIVE RStrip(_)
RStrip(str) ==
    IF str # <<>> /\ str[Len(str)] = " " THEN RStrip(SubSeq(str, 1, Len(str) - 1)) ELSE str

\* str.strip()
Strip(str) == RStrip(LStrip(str))

\* what the user types into the input box
TypedTexts == {Hello, <<" ", "\\", "\"", "U+00E9", " ">>, <<" ">>}

\* the ways a save can end
SaveKinds == {"open_fail", "write_fail", "ok"}

\* ChatArea.send_message without dropped files: an empty text is ignored,
\* any other is passed to chat_with_memory with the session and the settings
\* of the window (enable_summarization is not among the arguments).  The
\* text is one of texts, the endpoint answers with one of outs and the save
\* ends in one of kinds.
SendWith(texts, outs, kinds) ==
    /\ last.op = "none"
    /\ UNCHANGED <<gui, procs>>
    /\ \E text \in texts :
         \E user_text \in {Strip(text)} :
           IF user_text = EmptyStr
           THEN /\ last' = [op |-> "ignored"]
                /\ UNCHANGED <<files, saved>>
           ELSE \E cfg \in {<<gui.settings.max_history, gui.settings.summary_threshold>>} :
                 \E f \in {files[memory_file(gui.current_session)]} :
                  \E io \in IoOutcomes(f) :
                   \E sum_out \in SumDomain(f, io, user_text, cfg) \cap (outs \cup {NoCall}) :
                    \E gen_out \in GenDomain(f, io, user_text, cfg, gui.settings.agent_prompt, sum_out)
                                     \cap (outs \cup {NoCall}) :
                     \E save_out \in {o \in SaveDomain(f, io, user_text, cfg, gui.settings.agent_prompt, sum_out, gen_out) :
                                         o.kind \in kinds \cup {"none"}} :
                       Turn(gui.current_session, io, user_text, cfg,
                            gui.settings.agent_prompt, sum_out, gen_out, save_out)

Send == SendWith(TypedTexts, GenOutcomes, SaveKinds)

\* settings with 1 <= max_history <= summary_threshold, as _load_settings
\* reads them from settings.json, and the defaults
FixedConfigs ==
    {c \in (1..MaxHist) \X (1..MaxLen) : c[1] <= c[2]}
    \cup {<<DefaultMaxHistory, DefaultSummaryThreshold>>}

InitFixed ==
    /\ \E f \in InitFiles :
          files = [n \in FileNames |-> IF n = memory_file("default") THEN f ELSE Absent]
    /\ saved = [s \in Sessions |-> [valid |-> FALSE, memory |-> <<>>]]
    /\ last = NoOp
    /\ \E c \in FixedConfigs, agent_prompt \in AgentPrompts :
          gui = GuiStart(files, [max_history |-> c[1], summary_threshold |-> c[2],
                                 enable_summarization |-> TRUE,
                                 agent_prompt |-> agent_prompt])
    /\ procs = NoProcs

\* messages sent in the default session of a window whose settings stay
NextFixed == Send \/ Shown

SpecFixed == InitFixed /\ [][NextFixed]_vars

\* ------------------------------------------------------------ the sidebar
\* the characters re.sub(r'[<>:"/\\|?*]', '_', name) replaces
Forbidden == {"<", ">", ":", "\"", "/", "\\", "|", "?", "*"}

Sanitize(name) ==
    [i \in 1..Len(name) |-> IF name[i] \in Forbidden THEN "_" ELSE name[i]]

\* the session name as one string, as the f-string of the file name takes it
RECURSIVE Text(_)
Text(str) == IF str = <<>> THEN "" ELSE Head(str) \o Text(Tail(str))

\* what the user types into the name dialogs
TypedNames == {<<>>, <<" ">>, <<"t", "1">>, <<" ", "default", " ">>}

InvalidSaved == [valid |-> FALSE, memory |-> <<>>]
Ignored == [op |-> "ignored"]

\* ChatArea.load_session_chat(session) for a non-empty name
load_session_chat(session, io) ==
    /\ gui' = [gui EXCEPT !.current_session = session]
    /\ Load(session, io)

\* Sidebar.create_new_chat
NewChat ==
    /\ last.op = "none"
    /\ UNCHANGED procs
    /\ \E typed \in TypedNames, ok \in BOOLEAN :
         \E name \in {Text(Strip(Sanitize(typed)))} :
           IF ok /\ typed # <<>> /\ name # "" /\ name \notin gui.session_list
           THEN /\ \E io \in IoOutcomes(files[memory_file(name)]) : Load(name, io)
                /\ gui' = [gui EXCEPT !.session_list = @ \cup {name},
                                      !.current_session = name]
           ELSE /\ last' = Ignored
                /\ UNCHANGED <<files, saved, gui>>

\* Sidebar.change_session
ChangeSession ==
    /\ last.op = "none"
    /\ UNCHANGED procs
    /\ \E item \in gui.session_list :
         \E io \in IoOutcomes(files[memory_file(item)]) : load_session_chat(item, io)

\* os.remove: FileNotFoundError is caught, any other error leaves the handler
RemoveOutcomes(file) == IF file.exists THEN {"ok", "error"} ELSE {"ok"}

\* Sidebar.show_session_menu, "Delete Session"
DeleteSession ==
    /\ last.op = "none"
    /\ UNCHANGED procs
    /\ \E item \in gui.session_list, reply \in {"Yes", "No"} :
         \E out \in RemoveOutcomes(files[memory_file(item)]) :
           IF reply = "Yes" /\ out = "ok"
           THEN /\ files' = [files EXCEPT ![memory_file(item)] = Absent]
                /\ saved' = [saved EXCEPT ![item] = InvalidSaved]
                /\ gui' = [gui EXCEPT !.session_list = load_sessions(files'),
                                      !.current_session = "default"]
                /\ last' = [op |-> "delete", session |-> item, dir |-> files]
           ELSE /\ last' = Ignored
                /\ UNCHANGED <<files, saved, gui>>

\* os.rename(old_file, new_file): on POSIX it replaces an existing new_file,
\* on Windows it raises FileExistsError; it can fail on either
RenameOutcomes == {"ok", "error"}

\* Sidebar.show_session_menu, "Rename Session"
RenameSession ==
    /\ last.op = "none"
    /\ UNCHANGED procs
    /\ \E item \in gui.session_list, typed \in TypedNames, ok \in BOOLEAN, out \in RenameOutcomes :
         \E new_name \in {Text(Strip(Sanitize(typed)))} :
           IF ~ok \/ typed = <<>> \/ new_name = "" \/ new_name \in gui.session_list
              \/ (files[memory_file(item)].exists /\ out = "error")
           THEN /\ last' = Ignored
                /\ UNCHANGED <<files, saved, gui>>
           ELSE /\ files' = IF files[memory_file(item)].exists
                            THEN [files EXCEPT ![memory_file(new_name)] = files[memory_file(item)],
                                               ![memory_file(item)] = Absent]
                            ELSE files
                /\ saved' = [saved EXCEPT ![item] = InvalidSaved, ![new_name] = InvalidSaved]
                /\ gui' = [gui EXCEPT !.session_list = (@ \ {item}) \cup {new_name},
                                      !.current_session = new_name]
                /\ last' = [op |-> "rename", session |-> item, new_name |-> new_name,
                            dir |-> files]

\* the ranges of the spin boxes of the settings dialog
MaxHistoryMin == 1
MaxHistoryMax == 100
SummaryThresholdMin == 5
SummaryThresholdMax == 200

\* the values the user sets in the dialog
SettingChoices ==
    {c \in {<<MaxHistoryMin, SummaryThresholdMin>>, <<DefaultMaxHistory, DefaultSummaryThreshold>>} :
        /\ c[1] \in MaxHistoryMin..MaxHistoryMax
        /\ c[2] \in SummaryThresholdMin..SummaryThresholdMax}

\* SettingsDialog.save_settings
SaveSettings ==
    /\ last.op = "none"
    /\ UNCHANGED <<files, saved, procs>>
    /\ \E c \in SettingChoices, checked \in BOOLEAN :
         /\ gui' = [gui EXCEPT !.settings =
                       [max_history |-> c[1], summary_threshold |-> c[2],
                        enable_summarization |-> checked, agent_prompt |-> @.agent_prompt]]
         /\ last' = [op |-> "settings"]

\* the record files the window finds when it starts
InitGui ==
    /\ \E f \in {Absent, File(json_dump(LongRecord))},
          g \in {Absent, File(json_dump(<<Msg("user", Hello), Msg("assistant", HiThere)>>))} :
          files = [n \in FileNames |-> IF n = memory_file("default") THEN f ELSE g]
    /\ saved = [s \in Sessions |-> InvalidSaved]
    /\ last = NoOp
    /\ gui = GuiStart(files, DefaultSettings)
    /\ procs = NoProcs

\* the messages typed, the answers of the endpoint and the ends of a save
\* in the runs of the whole window
GuiTexts == {Hello, <<" ">>}
GuiOuts == {OkOut(HiThere), HttpOut}
GuiSaveKinds == {"open_fail", "ok"}

NextGui ==
    \/ SendWith(GuiTexts, GuiOuts, GuiSaveKinds)
    \/ NewChat
    \/ ChangeSession
    \/ DeleteSession
    \/ RenameSession
    \/ SaveSettings
    \/ Shown

SpecGui == InitGui /\ [][NextGui]_vars

\* ------------------------------------------------- two turns at one time
\* Two callers of chat_with_memory on the session "default", one turn each.
\* A caller reads the file in load_memory (one read), computes its memory
\* without touching the file, and saves in two steps: open(MEMORY_FILE, "w")
\* truncates the file, and json.dump with the close of the file writes the
\* text at offset 0 of the caller's own file object.
Procs == {"p1", "p2"}

IdleProc == [pc |-> "idle", loaded |-> <<>>, memory |-> <<>>]

\* the message each caller sends
InputOf(p) == <<"message of ", p>>

\* open(MEMORY_FILE, "w")
open_truncate(file) == File(<<>>)

\* the write of text at offset 0 into a file that another caller may have
\* written since this caller opened it
write_at_start(file, text) ==
    File(text \o SubSeq(file.text, Len(text) + 1, Len(file.text)))

\* lines 25-53: load, append, summarize, generate, append the reply
StartTurn(p) ==
    /\ procs[p].pc = "idle"
    /\ UNCHANGED <<files, saved, last, gui>>
    /\ \E cfg \in {<<gui.settings.max_history, gui.settings.summary_threshold>>} :
        \E f \in {files[memory_file(gui.current_session)]} :
         \E io \in IoOutcomes(f) :
          \E sum_out \in SumDomain(f, io, InputOf(p), cfg) \cap (GuiOuts \cup {NoCall}) :
           \E gen_out \in GenDomain(f, io, InputOf(p), cfg, gui.settings.agent_prompt, sum_out)
                            \cap (GuiOuts \cup {NoCall}) :
            \E r \in {chat_with_memory(f, io, InputOf(p), cfg[1], cfg[2],
                                       gui.settings.agent_prompt, sum_out, gen_out, NoSave)} :
              procs' = [procs EXCEPT ![p] =
                          IF r.save_called
                          THEN [pc |-> "saving", loaded |-> r.loaded, memory |-> r.memory]
                          ELSE [pc |-> "done", loaded |-> r.loaded, memory |-> <<>>]]

\* line 55: the open succeeds and truncates, or raises and the turn ends
OpenFile(p) ==
    /\ procs[p].pc = "saving"
    /\ UNCHANGED <<saved, last, gui>>
    /\ \E kind \in GuiSaveKinds :
         IF kind = "ok"
         THEN /\ files' = [files EXCEPT ![memory_file(gui.current_session)] = open_truncate(@)]
              /\ procs' = [procs EXCEPT ![p].pc = "opened"]
         ELSE /\ procs' = [procs EXCEPT ![p] = [pc |-> "done", loaded |-> @.loaded, memory |-> <<>>]]
              /\ UNCHANGED files

\* lines 56-58: json.dump and the close of the file
WriteFile(p) ==
    /\ procs[p].pc = "opened"
    /\ UNCHANGED <<saved, gui>>
    /\ files' = [files EXCEPT ![memory_file(gui.current_session)] =
                    write_at_start(@, json_dump(procs[p].memory))]
    /\ procs' = [procs EXCEPT ![p].pc = "done"]
    /\ last' = [op |-> "saved", proc |-> p, memory |-> procs[p].memory]

\* the settings of the two callers
ConcConfigs == {<<MaxHist, MaxThresh>>, <<DefaultMaxHistory, DefaultSummaryThreshold>>}

InitConc ==
    /\ \E f \in {Absent, File(json_dump(<<Msg("user", Hello), Msg("assistant", HiThere)>>)),
                 File(json_dump(LongRecord))} :
          files = [n \in FileNames |-> IF n = memory_file("default") THEN f ELSE Absent]
    /\ saved = [s \in Sessions |-> InvalidSaved]
    /\ last = NoOp
    /\ \E c \in ConcConfigs :
          gui = GuiStart(files, [max_history |-> c[1], summary_threshold |-> c[2],
                                 enable_summarization |-> TRUE, agent_prompt |-> EmptyStr])
    /\ procs = [p \in Procs |-> IdleProc]

NextConc == \E p \in Procs : StartTurn(p) \/ OpenFile(p) \/ WriteFile(p)

SpecConc == InitConc /\ [][NextConc]_vars

\* ------------------------------------------------------------ the claims
\* what a later load of the file yields when the read itself works
Stored(file) == load_memory(file, "ok").value

ErrorString(str) ==
    Len(str) >= 1 /\ str[1] \in {"HTTP Error:", "Request Error:", "Unexpected Error:"}

GoodReply(str) == str # <<>> /\ ~ErrorString(str)

LastK(seq, k) == SubSeq(seq, Len(seq) - Min(k, Len(seq)) + 1, Len(seq))

IsTurn == last.op = "turn"
IsLoad == last.op = "load"

\* the turn that just returned was successful: the final reply is non-empty
\* and no error string, and the save wrote everything
SuccessfulTurn ==
    /\ IsTurn
    /\ last.r.final_called
    /\ GoodReply(last.r.assistant_reply)
    /\ last.save_out.kind = "ok"

\* C1: on a successful turn chat_with_memory returns the reply and the
\* persisted record is loaded ++ [user, assistant] when len(loaded)+1 <=
\* summary_threshold, and [system(summary)] ++ (last max_history of
\* loaded ++ [user]) ++ [assistant] otherwise.
C1_SuccessfulTurnRecord ==
    SuccessfulTurn =>
        LET loaded == load_memory(last.before, last.io).value
            withUser == Append(loaded, Msg("user", last.user_input))
            reply == generate_text(last.gen_out)
            summary == generate_text(last.sum_out)
        IN /\ last.r.ret = reply
           /\ ~last.r.raised
           /\ files[memory_file(last.session)].exists
           /\ json_load(files[memory_file(last.session)].text).ok
           /\ Stored(files[memory_file(last.session)]) =
                IF Len(loaded) + 1 <= last.summary_threshold
                THEN withUser \o <<Msg("assistant", reply)>>
                ELSE <<Msg("system", summary)>> \o LastK(withUser, last.max_history)
                     \o <<Msg("assistant", reply)>>

\* a successful summarizing turn that dropped stored messages and kept one
C1_Witness ==
    /\ SuccessfulTurn
    /\ Len(last.r.loaded) + 1 > last.summary_threshold
    /\ last.max_history = 2
    /\ Len(last.r.loaded) = 2
    /\ Len(Stored(files[memory_file(last.session)])) = 4

\* C2: summarization fires iff the length N after appending the user
\* message is > summary_threshold; when it fires the in-memory transcript
\* has length 1 + min(max_history, N) right afterwards (21 stored messages,
\* max_history 5, threshold 20: a successful turn persists 7 messages).
C2_SummarizationTrigger ==
    IsTurn =>
        LET N == Len(load_memory(last.before, last.io).value) + 1
        IN /\ last.r.fired <=> N > last.summary_threshold
           /\ (last.r.summary_called => last.r.fired)
           /\ last.r.summary_called =>
                Len(last.r.memory3) = 1 + Min(last.max_history, N)
           /\ (SuccessfulTurn /\ N = 22 /\ last.max_history = 5
                 /\ last.summary_threshold = 20) =>
                Len(Stored(files[memory_file(last.session)])) = 7

\* the scenario of the spec: 21 stored messages, 5 and 20
C2_Witness ==
    /\ SuccessfulTurn
    /\ last.r.summary_called
    /\ Len(Stored(last.before)) = 21
    /\ last.max_history = 5 /\ last.summary_threshold = 20
    /\ Len(Stored(files[memory_file(last.session)])) = 7

\* max_history exceeds the length at the time summarization fires
C2_WitnessShort ==
    /\ IsTurn /\ last.r.summary_called
    /\ last.max_history > Len(last.r.loaded) + 1

\* C3: when the final reply is empty or starts with one of the three error
\* prefixes, chat_with_memory returns it unchanged, performs no save and the
\* session file is what it was before the turn.
C3_FailedTurnFrame ==
    (IsTurn /\ last.r.final_called
       /\ (generate_text(last.gen_out) = <<>> \/ ErrorString(generate_text(last.gen_out)))) =>
        /\ last.r.ret = generate_text(last.gen_out)
        /\ ~last.r.save_called
        /\ last.save_out = NoSave
        /\ files[memory_file(last.session)] = last.before
        /\ files = [files EXCEPT ![memory_file(last.session)] = last.before]

\* a failed turn in which a summary had been computed over a stored record
C3_Witness ==
    /\ IsTurn /\ last.r.final_called
    /\ last.r.summary_called
    /\ GoodReply(last.r.summary)
    /\ ErrorString(last.r.ret)
    /\ Len(Stored(last.before)) >= 2

\* C4: no message of any persisted transcript has as content an error string
\* returned by generate_text, whether the summary call or the final call
\* produced it.
C4_NoErrorStringPersisted ==
    \A s \in Sessions :
        \A i \in 1..Len(Stored(files[memory_file(s)])) :
            ~ErrorString(Stored(files[memory_file(s)])[i].content)

\* C5: a save that fails, on opening the file or while writing it, leaves
\* the prior record of the session untouched.
C5_FailedSaveLeavesRecord ==
    (IsTurn /\ last.save_out.kind \in {"open_fail", "write_fail"}) =>
        /\ files[memory_file(last.session)] = last.before
        /\ Stored(files[memory_file(last.session)]) = Stored(last.before)

\* C6: a load_memory that follows a successful save of T, with no other
\* write to the session in between, returns exactly T (the read of the load
\* itself not failing at the I/O level).
C6_RoundTrip ==
    (IsLoad /\ last.io = "ok" /\ saved[last.session].valid) =>
        /\ ~last.r.raised
        /\ last.r.value = saved[last.session].memory

\* a load after the save of a transcript with a summary and a string that
\* holds a non-ASCII character, a quote and a backslash
C6_Witness ==
    /\ IsLoad /\ last.io = "ok" /\ saved[last.session].valid
    /\ Len(saved[last.session].memory) >= 3
    /\ saved[last.session].memory[1].role = "system"
    /\ \E i \in 1..Len(saved[last.session].memory) :
          saved[last.session].memory[i].content = Fancy

\* C7: load_memory never raises, returns the empty sequence when the session
\* has no record, the record is no list, cannot be parsed or cannot be read,
\* and never modifies the record.
C7_LoadNeverRaises ==
    IsLoad =>
        /\ ~last.r.raised
        /\ files = [files EXCEPT ![memory_file(last.session)] = last.before]
        /\ (\/ ~last.before.exists
            \/ last.before.text = <<NUM>>
            \/ ~json_load(last.before.text).ok
            \/ last.io = "error") => last.r.value = <<>>

\* the read of a well-formed, non-empty record fails with an I/O error
C7_Witness ==
    /\ IsLoad /\ last.io = "error"
    /\ json_load(last.before.text).ok
    /\ Len(json_load(last.before.text).items) >= 2
    /\ last.r.value = <<>>

\* a load of a record that a failed write left truncated
C7_WitnessTruncated ==
    /\ IsLoad /\ last.io = "ok"
    /\ last.before.exists /\ Len(last.before.text) >= 2
    /\ ~json_load(last.before.text).ok

\* C8: whatever the record, the generation outcomes and the save outcome,
\* chat_with_memory returns a reply string and never raises; after a write
\* failure the returned value is the generated reply.
C8_TurnNeverRaises ==
    IsTurn =>
        /\ ~last.r.raised
        /\ last.save_out.kind \in {"open_fail", "write_fail"} =>
              last.r.ret = generate_text(last.gen_out)

\* C9: the context of the final generation call holds exactly
\* min(max_history, available) transcript messages, the last ones, preceded
\* by one system message carrying agent_prompt iff agent_prompt is non-empty.
C9_ContextAssembly ==
    (IsTurn /\ last.r.final_called) =>
        LET available == Len(last.r.memory3)
            n == Min(last.max_history, available)
            ctx == last.r.context_messages
            lead == IF last.agent_prompt # <<>> THEN 1 ELSE 0
        IN /\ Len(ctx) = n + lead
           /\ lead = 1 => ctx[1] = Msg("system", last.agent_prompt)
           /\ SubSeq(ctx, lead + 1, Len(ctx)) = LastK(last.r.memory3, n)
           /\ last.max_history >= available =>
                SubSeq(ctx, lead + 1, Len(ctx)) = last.r.memory3
           /\ last.r.context = Render(ctx) \o <<"\nAssistant:">>

\* an agent prompt in front of a transcript shorter than max_history
C9_Witness ==
    /\ IsTurn /\ last.r.final_called
    /\ last.agent_prompt # <<>>
    /\ last.max_history > Len(last.r.memory3)
    /\ Len(last.r.memory3) >= 2
    /\ Len(last.r.context_messages) = Len(last.r.memory3) + 1

\* an agent prompt in front of a transcript cut to max_history
C9_WitnessCut ==
    /\ IsTurn /\ last.r.final_called
    /\ last.agent_prompt # <<>>
    /\ last.max_history < Len(last.r.memory3)

\* C10: no persisted transcript contains the message injected for the agent
\* prompt, and the record a turn leaves is the one the same turn leaves with
\* an empty agent_prompt and the same generation replies.
C10_AgentPromptNotPersisted ==
    /\ \A s \in Sessions :
          \A i \in 1..Len(Stored(files[memory_file(s)])) :
              Stored(files[memory_file(s)])[i].content \notin (AgentPrompts \ {EmptyStr})
    /\ IsTurn =>
          files[memory_file(last.session)] =
              chat_with_memory(last.before, last.io, last.user_input,
                               last.max_history, last.summary_threshold, EmptyStr,
                               last.sum_out, last.gen_out, last.save_out).file

\* a successful summarizing turn with a non-empty agent prompt
C10_Witness ==
    /\ SuccessfulTurn
    /\ last.agent_prompt # <<>>
    /\ last.r.summary_called
    /\ last.r.context_messages[1] = Msg("system", last.agent_prompt)

\* C17: the user message appended in a turn is never in the summarized
\* (old) partition: it is the last message of the recent partition and the
\* last message of the context sent to the final generation call.
C17_UserMessageIsRecent ==
    (IsTurn /\ last.r.final_called) =>
        LET memory1 == Append(load_memory(last.before, last.io).value,
                              Msg("user", last.user_input))
            N == Len(memory1)
            k == N - Min(last.max_history, N)
            ctx == last.r.context_messages
        IN /\ Len(ctx) >= 1
           /\ ctx[Len(ctx)] = Msg("user", last.user_input)
           /\ last.r.summary_called =>
                /\ k < N
                /\ last.r.summary_prompt =
                     <<"Summarize the following conversation in a few sentences to preserve context:\n">>
                     \o Render(SubSeq(memory1, 1, k)) \o <<"\nSummary:">>
                /\ SubSeq(last.r.memory3, 2, Len(last.r.memory3)) = SubSeq(memory1, k + 1, N)
                /\ last.r.memory3[Len(last.r.memory3)] = Msg("user", last.user_input)

\* a summarizing turn whose recent partition is the new user message alone
C17_Witness ==
    /\ IsTurn /\ last.r.final_called /\ last.r.summary_called
    /\ last.max_history = 1
    /\ Len(last.r.loaded) >= 2
    /\ last.r.memory3 = <<Msg("system", last.r.summary), Msg("user", last.user_input)>>


IsSystem(m) == m.kind = "dict" /\ m.role = "system"

\* the messages of the context that come from the memory (the agent prompt,
\* when there is one, is put before them)
ContextFromMemory ==
    IF last.agent_prompt # EmptyStr
    THEN Tail(last.r.context_messages) ELSE last.r.context_messages

\* C15: with 1 <= max_history <= summary_threshold fixed, the record persisted
\* by a successful turn has at most max(summary_threshold + 1, max_history + 2)
\* messages, hence at most summary_threshold + 2, whatever was stored before.
C15_BoundedMemory ==
    (SuccessfulTurn /\ 1 <= last.max_history /\ last.max_history <= last.summary_threshold) =>
        /\ Len(Stored(files[memory_file(last.session)]))
              <= Max(last.summary_threshold + 1, last.max_history + 2)
        /\ Len(Stored(files[memory_file(last.session)])) <= last.summary_threshold + 2

C15_Witness ==
    /\ SuccessfulTurn /\ last.r.summary_called
    /\ Len(last.r.loaded) > last.summary_threshold + 2
    /\ last.max_history = last.summary_threshold
    /\ Len(Stored(files[memory_file(last.session)])) = last.max_history + 2

C15_WitnessNoSummary ==
    /\ SuccessfulTurn /\ ~last.r.summary_called
    /\ last.max_history < last.summary_threshold
    /\ Len(Stored(files[memory_file(last.session)])) = last.summary_threshold + 1

\* C16: with 1 <= max_history <= summary_threshold fixed and a session that
\* starts with no system message, no summary is among the messages the final
\* generation call takes from the memory, in the turn that summarizes and in
\* every later one; a stored summary is input to the next summarization only.
C16_NoSummaryInContext ==
    (IsTurn /\ last.r.final_called) =>
        /\ \A i \in 1..Len(ContextFromMemory) : ~IsSystem(ContextFromMemory[i])
        /\ (last.r.summary_called /\ Len(last.r.loaded) >= 1 /\ IsSystem(last.r.loaded[1])) =>
              /\ old_messages(append_user(last.r.loaded, last.user_input), last.max_history)[1]
                    = last.r.loaded[1]
              /\ last.r.summary_prompt[2] = "System"

C16_Witness ==
    /\ IsTurn /\ last.r.final_called /\ last.r.summary_called
    /\ Len(last.r.loaded) >= 1 /\ IsSystem(last.r.loaded[1])
    /\ Len(ContextFromMemory) = last.max_history

C16_WitnessLaterTurn ==
    /\ IsTurn /\ last.r.final_called /\ ~last.r.summary_called
    /\ Len(last.r.loaded) >= 1 /\ IsSystem(last.r.loaded[1])
    /\ Len(ContextFromMemory) = last.max_history

\* C18: with 1 <= max_history <= summary_threshold fixed and a session that
\* starts with no system message, every persisted record has at most one
\* system message, and it is the first one: a summarization replaces the
\* summary stored before.
C18_AtMostOneSummary ==
    \A s \in Sessions :
        \A i \in 2..Len(Stored(files[memory_file(s)])) :
            ~IsSystem(Stored(files[memory_file(s)])[i])

C18_Witness ==
    /\ SuccessfulTurn /\ last.r.summary_called
    /\ Len(last.r.loaded) >= 1 /\ IsSystem(last.r.loaded[1])
    /\ IsSystem(Stored(files[memory_file(last.session)])[1])
    /\ Stored(files[memory_file(last.session)])[1] # last.r.loaded[1]


\* the file that holds the record of session s
RecordName(s) == <<"memory_", s, ".json">>

\* C11: a turn or a load on session s leaves the record of every other
\* session as it was, and neither deletes the record of s.
C11_SessionsIndependent ==
    (IsTurn \/ IsLoad) =>
        /\ \A s \in Sessions \ {last.session} : files[RecordName(s)] = last.dir[RecordName(s)]
        /\ \A s \in Sessions : last.dir[RecordName(s)].exists => files[RecordName(s)].exists
        /\ IsLoad => files = last.dir

C11_Witness ==
    /\ IsTurn /\ last.session = "t1"
    /\ files[RecordName("t1")] # last.dir[RecordName("t1")]
    /\ last.dir[RecordName("default")].exists
    /\ Len(Stored(files[RecordName("default")])) >= 2
    /\ Stored(files[RecordName("default")]) # Stored(files[RecordName("t1")])

C11_WitnessLoad ==
    /\ IsLoad /\ last.session = "t1"
    /\ last.dir[RecordName("default")].exists /\ last.dir[RecordName("t1")].exists

\* C13: renaming a session never overwrites or discards the record of a
\* different session: after a rename every record that existed under another
\* name than the renamed one is as it was.
C13_RenameKeepsOtherRecords ==
    last.op = "rename" =>
        \A s \in Sessions \ {last.session} :
            last.dir[RecordName(s)].exists => files[RecordName(s)] = last.dir[RecordName(s)]

\* C14: with enable_summarization off a message sent from the chat area
\* does not summarize: no summary call, and the memory keeps its messages.
C14_SummarizationOff ==
    (IsTurn /\ ~gui.settings.enable_summarization) =>
        /\ ~last.r.summary_called
        /\ last.r.final_called =>
              last.r.memory3 = Append(last.r.loaded, Msg("user", last.user_input))


AllDone == \A p \in Procs : procs[p].pc = "done"

\* C12: when two turns of one session run at the same time the later save
\* wins: once both have ended, the record on disk is the transcript of the
\* turn that saved last.
C12_LaterSaveWins ==
    (AllDone /\ last.op = "saved") =>
        files[RecordName("default")] = File(json_dump(last.memory))

\* a lost update: both turns loaded the same record and both saved, and the
\* record holds the messages of one of them only
C12_LostUpdate ==
    /\ AllDone /\ last.op = "saved"
    /\ \A p \in Procs : procs[p].memory # <<>> /\ procs[p].loaded = procs["p1"].loaded
    /\ Stored(files[RecordName("default")]) = last.memory
    /\ \E p \in Procs \ {last.proc} :
          \A i \in 1..Len(last.memory) : last.memory[i] # Msg("user", InputOf(p))

\* both turns saved, and the record is the transcript of neither
C12_NeitherTranscript ==
    /\ AllDone /\ last.op = "saved"
    /\ \A p \in Procs : files[RecordName("default")] # File(json_dump(procs[p].memory))

====
